---- MODULE Spec2Model ----
(***************************************************************************)
(* A model of the cpu-stats crate (src/src/lib.rs):                        *)
(*   - clock_ticks(): a process-wide tick frequency cached behind a        *)
(*     std::sync::Once (module clock_ticks);                               *)
(*   - cpu_stats() for Linux: linux::read_proc_stat_cpu, which parses the  *)
(*     first line of /proc/stat;                                           *)
(*   - cpu_stats() for macOS: macos::cpu_stats, which sums the per-core    *)
(*     records of host_processor_info.                                     *)
(* SpecClock runs several threads through clock_ticks(); Spec runs one     *)
(* cpu_stats() call of the platform the crate was built for.               *)
(***************************************************************************)
EXTENDS Integers, Sequences, FiniteSets, TLC

(***************************************************************************)
(* Bounds of the model.  The widths are scaled down: the target has 64-bit *)
(* usize / u64 / c_long and a 32-bit u32, and Duration counts 10^9         *)
(* sub-second units per second.                                            *)
(***************************************************************************)
NumThreads == 3
MaxCalls == 2
WordBits == 4
U32Bits == 2
SubsecPerSec == 1000
MaxLineLen == 9
MaxCores == 2

UsizeMod == 2 ^ WordBits
U32Mod == 2 ^ U32Bits
LongMin == -(2 ^ (WordBits - 1))
LongMax == 2 ^ (WordBits - 1) - 1

Threads == 1 .. NumThreads

VARIABLES
    \* ---- module clock_ticks
    CLOCK_TICKS,        \* static mut CLOCK_TICKS: usize
    CLOCK_TICKS_INIT,   \* static CLOCK_TICKS_INIT: Once  (its state)
    sysconfCalls,       \* number of executions of sysconf_clock_ticks()
    sysconfRets,        \* the results libc::sysconf has produced
    pc,                 \* SpecClock: where each thread is in clock_ticks()
    calls,              \* SpecClock: calls of clock_ticks() started per thread
    result,             \* SpecClock: value last returned to each thread
    returnedVals,       \* every value some call of clock_ticks() returned
    \* ---- cpu_stats()
    platform,           \* cfg(target_os)
    spc,                \* where the cpu_stats() call is
    outcome,            \* what cpu_stats() gave its caller
    openAttempts,       \* File::open("/proc/stat") calls
    readAttempts,       \* read_line calls
    ioError,            \* the error the OS reported to open or read_line
    parseCalls,         \* parse_to_duration calls
    line,               \* the String read_line filled
    hostRefs,           \* host port rights this call holds
    bufState,           \* the processor-info buffer: none/allocated/released
    bufReleaseCalls,    \* vm_deallocate calls
    portReleaseCalls,   \* mach_port_deallocate calls
    failedCalls,        \* OS calls that returned a status other than KERN_SUCCESS
    cpu_info,           \* what host_processor_info wrote (flat integer array)
    array,              \* Vec<(usize, usize, usize, usize)> copied from it
    copiedBeforeRelease,\* the records were copied while the buffer was live
    user_total,
    system_total

clockVars == <<CLOCK_TICKS, CLOCK_TICKS_INIT, sysconfCalls, sysconfRets>>
threadVars == <<pc, calls, result, returnedVals>>
linuxVars == <<openAttempts, readAttempts, ioError, parseCalls, line>>
macVars == <<hostRefs, bufState, bufReleaseCalls, portReleaseCalls, failedCalls,
             cpu_info, array, copiedBeforeRelease, user_total, system_total>>
statsVars == <<platform, spc, outcome>>
vars == <<clockVars, threadVars, statsVars, linuxVars, macVars>>

(***************************************************************************)
(* module clock_ticks                                                      *)
(***************************************************************************)

\* libc::sysconf returns a c_long; the results tried are the failure value, a
\* negative one, zero, small frequencies, and frequencies past the u32 range
SysconfResults == {-2, -1, 0, 1, 3, U32Mod, U32Mod + 1} \cap (LongMin .. LongMax)

\* the value sysconf_clock_ticks() treats as a failure
SysconfFailure == -1

\* `ret as usize`: two's complement reinterpretation of a c_long
AsUsize(ret) == ret % UsizeMod

\* fn sysconf_clock_ticks() -> io::Result<usize>, given what libc::sysconf returned
sysconf_clock_ticks(ret) ==
    IF ret = SysconfFailure
    THEN [ok |-> FALSE, val |-> 0]
    ELSE [ok |-> TRUE, val |-> AsUsize(ret)]

OnceMustRun_EveryCall(state) == state \in {"incomplete", "complete"}
\* Once::call_once runs the closure only when no call has run it yet
OnceMustRun(state) == state = "incomplete"

OnceBlocks_Never(state) == FALSE
\* Once::call_once blocks the caller while another thread runs the closure
OnceBlocks(state) == state = "running"

\* pub fn clock_ticks(): entry
Call(t) ==
    /\ pc[t] \in {"idle", "returned"}
    /\ calls[t] < MaxCalls
    /\ calls' = [calls EXCEPT ![t] = @ + 1]
    /\ pc' = [pc EXCEPT ![t] = "call_once"]
    /\ UNCHANGED <<clockVars, result, returnedVals, statsVars, linuxVars, macVars>>

\* CLOCK_TICKS_INIT.call_once(..): the gate
CallOnce(t) ==
    /\ pc[t] = "call_once"
    /\ ~OnceBlocks(CLOCK_TICKS_INIT)
    /\ IF OnceMustRun(CLOCK_TICKS_INIT)
       THEN /\ CLOCK_TICKS_INIT' = "running"
            /\ pc' = [pc EXCEPT ![t] = "closure"]
       ELSE IF CLOCK_TICKS_INIT = "poisoned"
       THEN /\ pc' = [pc EXCEPT ![t] = "panicked"]
            /\ UNCHANGED CLOCK_TICKS_INIT
       ELSE /\ pc' = [pc EXCEPT ![t] = "read"]
            /\ UNCHANGED CLOCK_TICKS_INIT
    /\ UNCHANGED <<CLOCK_TICKS, sysconfCalls, sysconfRets, calls, result, returnedVals,
                   statsVars, linuxVars, macVars>>

\* the closure: CLOCK_TICKS = sysconf_clock_ticks().unwrap();
\* a panic in the closure poisons the Once
Closure(t) ==
    /\ pc[t] = "closure"
    /\ \E ret \in SysconfResults :
          LET r == sysconf_clock_ticks(ret) IN
          /\ sysconfCalls' = sysconfCalls + 1
          /\ sysconfRets' = sysconfRets \cup {ret}
          /\ IF r.ok
             THEN /\ CLOCK_TICKS' = r.val
                  /\ CLOCK_TICKS_INIT' = "complete"
                  /\ pc' = [pc EXCEPT ![t] = "read"]
             ELSE /\ CLOCK_TICKS_INIT' = "poisoned"
                  /\ pc' = [pc EXCEPT ![t] = "panicked"]
                  /\ UNCHANGED CLOCK_TICKS
    /\ UNCHANGED <<calls, result, returnedVals, statsVars, linuxVars, macVars>>

\* the tail expression: CLOCK_TICKS
ReadTicks(t) ==
    /\ pc[t] = "read"
    /\ result' = [result EXCEPT ![t] = CLOCK_TICKS]
    /\ returnedVals' = returnedVals \cup {CLOCK_TICKS}
    /\ pc' = [pc EXCEPT ![t] = "returned"]
    /\ UNCHANGED <<clockVars, calls, statsVars, linuxVars, macVars>>

\* clock_ticks() called by a caller that has the process to itself (cpu_stats
\* in Spec): the same gate, closure and read, run to completion.
clock_ticks(once, cache, ret) ==
    IF OnceMustRun(once)
    THEN LET r == sysconf_clock_ticks(ret) IN
         IF r.ok
         THEN [once |-> "complete", cache |-> r.val, queried |-> {ret},
               ok |-> TRUE, val |-> r.val]
         ELSE [once |-> "poisoned", cache |-> cache, queried |-> {ret},
               ok |-> FALSE, val |-> 0]
    ELSE IF once = "poisoned"
    THEN [once |-> once, cache |-> cache, queried |-> {}, ok |-> FALSE, val |-> 0]
    ELSE [once |-> once, cache |-> cache, queried |-> {}, ok |-> TRUE, val |-> cache]

(***************************************************************************)
(* std::time::Duration, as far as the crate uses it                        *)
(***************************************************************************)

ZeroDuration == [secs |-> 0, nanos |-> 0]

\* Duration::from_secs(secs)
FromSecs(secs) == [secs |-> secs, nanos |-> 0]

\* `x as u32`: truncation of a usize
AsU32(x) == x % U32Mod

DurationDiv_WholeSeconds(d, rhs) ==
    IF rhs = 0
    THEN [ok |-> FALSE, d |-> ZeroDuration]
    ELSE [ok |-> TRUE, d |-> [secs |-> d.secs \div rhs, nanos |-> 0]]
\* impl Div<u32> for Duration (Duration::checked_div; panics when rhs is 0)
DurationDiv(d, rhs) ==
    IF rhs = 0
    THEN [ok |-> FALSE, d |-> ZeroDuration]
    ELSE LET secs == d.secs \div rhs
             extra_secs == d.secs % rhs
             nanos == d.nanos \div rhs
             extra_nanos == d.nanos % rhs
         IN  [ok |-> TRUE,
              d |-> [secs |-> secs,
                     nanos |-> nanos + ((extra_secs * SubsecPerSec + extra_nanos) \div rhs)]]

\* Duration::from_secs(raw as u64) / clock_ticks() as u32, on the clock state
\* cs = [once, cache, queries, rets]; `ret` is what libc::sysconf returns if asked
TicksToDuration(cs, raw, ret) ==
    LET c == clock_ticks(cs.once, cs.cache, ret)
        q == DurationDiv(FromSecs(raw), AsU32(c.val))
        after == [once |-> c.once, cache |-> c.cache,
                  queries |-> cs.queries + Cardinality(c.queried),
                  rets |-> cs.rets \cup c.queried]
    IN  IF c.ok /\ q.ok
        THEN [cs |-> after, ok |-> TRUE, d |-> q.d]
        ELSE [cs |-> after, ok |-> FALSE, d |-> ZeroDuration]

ClockState == [once |-> CLOCK_TICKS_INIT, cache |-> CLOCK_TICKS,
               queries |-> sysconfCalls, rets |-> sysconfRets]

(***************************************************************************)
(* io::Result<CpuStats>, or a panic unwinding out of cpu_stats()           *)
(***************************************************************************)

NoOutcome == [kind |-> "none", user |-> ZeroDuration, system |-> ZeroDuration,
              err |-> "none"]
OkOutcome(user, system) == [kind |-> "Ok", user |-> user, system |-> system,
                            err |-> "none"]
ErrOutcome(e) == [kind |-> "Err", user |-> ZeroDuration, system |-> ZeroDuration,
                  err |-> e]
PanicOutcome == [kind |-> "Panic", user |-> ZeroDuration, system |-> ZeroDuration,
                 err |-> "none"]

Propagate_DefaultStats(e) == OkOutcome(ZeroDuration, ZeroDuration)
\* the `?` operator on an Err(e): return Err(e) from the function
Propagate(e) == ErrOutcome(e)

(***************************************************************************)
(* mod linux                                                               *)
(***************************************************************************)

\* characters a line is made of: ASCII whitespace, a decimal digit, a letter
Alphabet == {" ", "1", "x"}
Lines == UNION {[1 .. n -> Alphabet] : n \in 0 .. MaxLineLen}

OpenErrors == {"ENOENT", "EACCES"}
ReadErrors == {"EIO", "InvalidData"}

RECURSIVE SplitFrom(_, _, _, _)
SplitFrom(s, i, cur, acc) ==
    IF i > Len(s)
    THEN IF cur = <<>> THEN acc ELSE Append(acc, cur)
    ELSE IF s[i] = " "
    THEN SplitFrom(s, i + 1, <<>>, IF cur = <<>> THEN acc ELSE Append(acc, cur))
    ELSE SplitFrom(s, i + 1, Append(cur, s[i]), acc)

\* str::split_ascii_whitespace: the maximal runs of non-whitespace characters
SplitAsciiWhitespace(s) == SplitFrom(s, 1, <<>>, <<>>)

DigitValue(c) == IF c = "1" THEN 1 ELSE -1

RECURSIVE ParseDigits(_, _, _)
ParseDigits(tok, i, acc) ==
    IF i > Len(tok) THEN [ok |-> TRUE, val |-> acc]
    ELSE IF DigitValue(tok[i]) < 0 THEN [ok |-> FALSE, val |-> 0]
    ELSE IF acc * 10 + DigitValue(tok[i]) >= UsizeMod THEN [ok |-> FALSE, val |-> 0]
    ELSE ParseDigits(tok, i + 1, acc * 10 + DigitValue(tok[i]))

\* str::parse::<u64>: Err on an empty string, on a character that is no decimal
\* digit and on a value that does not fit the type (the leading '+' the
\* standard library also accepts is not in Alphabet)
ParseU64(tok) ==
    IF tok = <<>> THEN [ok |-> FALSE, val |-> 0] ELSE ParseDigits(tok, 1, 0)

\* fn parse_to_duration(v: &str) -> Duration; the unwrap panics on a parse error
parse_to_duration(cs, v, ret) ==
    LET p == ParseU64(v) IN
    IF ~p.ok
    THEN [cs |-> cs, ok |-> FALSE, d |-> ZeroDuration]
    ELSE TicksToDuration(cs, p.val, ret)

\* the enumerate() indices of the match arms that assign
UserField == 1
SystemField_Third == UserField + 1
SystemField == 3

\* for (i, v) in line.split_ascii_whitespace().enumerate() { match i { .. } }
\* st = [cs, user, system, panicked, parses]; i is the 0-based index
RECURSIVE FieldLoop(_, _, _, _)
FieldLoop(fields, i, st, ret) ==
    IF i >= Len(fields) \/ st.panicked THEN st
    ELSE IF i = UserField
    THEN LET r == parse_to_duration(st.cs, fields[i + 1], ret) IN
         FieldLoop(fields, i + 1,
                   [st EXCEPT !.cs = r.cs, !.user = r.d, !.panicked = ~r.ok,
                              !.parses = @ + 1], ret)
    ELSE IF i = SystemField
    THEN LET r == parse_to_duration(st.cs, fields[i + 1], ret) IN
         FieldLoop(fields, i + 1,
                   [st EXCEPT !.cs = r.cs, !.system = r.d, !.panicked = ~r.ok,
                              !.parses = @ + 1], ret)
    ELSE IF i \in {0, 2}
    THEN FieldLoop(fields, i + 1, st, ret)
    ELSE st

\* BufReader::new(std::fs::File::open("/proc/stat")?)
Open ==
    /\ platform = "linux"
    /\ spc = "start"
    /\ openAttempts' = openAttempts + 1
    /\ \E r \in {"ok"} \cup OpenErrors :
          IF r = "ok"
          THEN /\ spc' = "opened"
               /\ UNCHANGED <<outcome, ioError>>
          ELSE /\ ioError' = r
               /\ outcome' = Propagate(r)
               /\ spc' = "done"
    /\ UNCHANGED <<clockVars, threadVars, platform, readAttempts, parseCalls, line, macVars>>

\* let _len = fd.read_line(&mut line)?;
ReadLine ==
    /\ spc = "opened"
    /\ readAttempts' = readAttempts + 1
    /\ \E r \in {"ok"} \cup ReadErrors :
          IF r = "ok"
          THEN /\ \E l \in Lines : line' = l
               /\ spc' = "line_read"
               /\ UNCHANGED <<outcome, ioError>>
          ELSE /\ ioError' = r
               /\ outcome' = Propagate(r)
               /\ spc' = "done"
               /\ UNCHANGED line
    /\ UNCHANGED <<clockVars, threadVars, platform, openAttempts, parseCalls, macVars>>

\* let mut stats = CpuStats::default(); the for loop; Ok(stats)
ParseLine ==
    /\ spc = "line_read"
    /\ \E ret \in SysconfResults :
          LET st == FieldLoop(SplitAsciiWhitespace(line), 0,
                              [cs |-> ClockState, user |-> ZeroDuration,
                               system |-> ZeroDuration, panicked |-> FALSE,
                               parses |-> 0], ret)
          IN  /\ CLOCK_TICKS_INIT' = st.cs.once
              /\ CLOCK_TICKS' = st.cs.cache
              /\ sysconfCalls' = st.cs.queries
              /\ sysconfRets' = st.cs.rets
              /\ parseCalls' = st.parses
              /\ outcome' = IF st.panicked THEN PanicOutcome
                            ELSE OkOutcome(st.user, st.system)
    /\ spc' = "done"
    /\ UNCHANGED <<threadVars, platform, openAttempts, readAttempts, ioError, line, macVars>>

(***************************************************************************)
(* mod macos                                                               *)
(***************************************************************************)

\* kern_return_t values the three Mach calls are given: KERN_SUCCESS (0),
\* KERN_FAILURE (5), and -1, the one value the code compares against
KernReturns == {0, -1, 5}

\* the OS reports a failure by any status other than KERN_SUCCESS
KernFailed(kr) == kr # 0

\* `if ret == -1 { return Err(io::Error::last_os_error()); }`
RetIsError(ret) == ret = -1

\* values of one tick counter (integer_t, non-negative)
Counters == {0, 1}

\* chunks(4): CPU_STATE_MAX counters per core
ChunkSize == 4

\* what host_processor_info writes for 1 .. MaxCores cores
CoreBuffers == UNION {[1 .. ChunkSize * n -> Counters] : n \in 1 .. MaxCores}

\* cpu_info_slice.chunks(4), each chunk pushed as
\* (chunk[0] as usize, chunk[1] as usize, chunk[2] as usize, chunk[3] as usize)
Chunks(slice) ==
    [k \in 1 .. (Len(slice) \div ChunkSize) |->
        <<slice[ChunkSize * (k - 1) + 1], slice[ChunkSize * (k - 1) + 2],
          slice[ChunkSize * (k - 1) + 3], slice[ChunkSize * (k - 1) + 4]>>]

\* the tuple pattern (user, system, _idle, _nice)
TupleUser(rec) == rec[1]
TupleSystem_Idle(rec) == rec[3]
TupleSystem(rec) == rec[2]

\* for (user, system, _idle, _nice) in processor_info { user_total += user; .. }
RECURSIVE SumLoop(_, _, _)
SumLoop(arr, i, acc) ==
    IF i > Len(arr) THEN acc
    ELSE SumLoop(arr, i + 1,
                 [user |-> acc.user + TupleUser(arr[i]),
                  system |-> acc.system + TupleSystem(arr[i])])

\* let host_port = get_host_port();   (mach_host_self)
GetHostPort ==
    /\ platform = "macos"
    /\ spc = "start"
    /\ hostRefs' = hostRefs + 1
    /\ spc' = "have_port"
    /\ UNCHANGED <<clockVars, threadVars, platform, outcome, linuxVars, bufState,
                   bufReleaseCalls, portReleaseCalls, failedCalls, cpu_info, array,
                   copiedBeforeRelease, user_total, system_total>>

\* libc::host_processor_info(host, 2, ..) and the check of its status; the `?`
\* in cpu_stats returns the Err at once
HostProcessorInfo ==
    /\ spc = "have_port"
    /\ \E kr \in KernReturns :
          /\ IF KernFailed(kr)
             THEN /\ failedCalls' = failedCalls \cup {"host_processor_info"}
                  /\ UNCHANGED <<cpu_info, bufState>>
             ELSE /\ \E buf \in CoreBuffers : cpu_info' = buf
                  /\ bufState' = "allocated"
                  /\ UNCHANGED failedCalls
          /\ IF RetIsError(kr)
             THEN /\ outcome' = Propagate("last_os_error")
                  /\ spc' = "done"
             ELSE /\ spc' = "queried"
                  /\ UNCHANGED outcome
    /\ UNCHANGED <<clockVars, threadVars, platform, linuxVars, hostRefs, bufReleaseCalls,
                   portReleaseCalls, array, copiedBeforeRelease, user_total,
                   system_total>>

\* slice::from_raw_parts(cpu_info, cpu_info_count) and the chunks(4) loop.  When
\* the query failed with a status the code lets through, cpu_info is still the
\* null pointer: from_raw_parts on it is undefined behaviour, which a build
\* with the standard library's precondition checks aborts on and another
\* build reads as the empty slice.
CopyRecords ==
    /\ spc = "queried"
    /\ IF bufState = "allocated"
       THEN /\ array' = Chunks(cpu_info)
            /\ copiedBeforeRelease' = TRUE
            /\ spc' = "copied"
            /\ UNCHANGED outcome
       ELSE \E ub \in {"empty_slice", "abort"} :
               IF ub = "empty_slice"
               THEN /\ array' = <<>>
                    /\ spc' = "copied"
                    /\ UNCHANGED <<outcome, copiedBeforeRelease>>
               ELSE /\ outcome' = PanicOutcome
                    /\ spc' = "done"
                    /\ UNCHANGED <<array, copiedBeforeRelease>>
    /\ UNCHANGED <<clockVars, threadVars, platform, linuxVars, hostRefs, bufState,
                   bufReleaseCalls, portReleaseCalls, failedCalls, cpu_info,
                   user_total, system_total>>

\* libc::vm_deallocate(mach_task_self(), cpu_info, cpu_info_count) and the check
\* of its status
VmDeallocate ==
    /\ spc = "copied"
    /\ bufReleaseCalls' = bufReleaseCalls + 1
    /\ \E kr \in KernReturns :
          /\ IF KernFailed(kr)
             THEN /\ failedCalls' = failedCalls \cup {"vm_deallocate"}
                  /\ UNCHANGED bufState
             ELSE /\ bufState' = IF bufState = "allocated" THEN "released" ELSE bufState
                  /\ UNCHANGED failedCalls
          /\ IF RetIsError(kr)
             THEN /\ outcome' = Propagate("last_os_error")
                  /\ spc' = "done"
             ELSE /\ spc' = "have_info"
                  /\ UNCHANGED outcome
    /\ UNCHANGED <<clockVars, threadVars, platform, linuxVars, hostRefs,
                   portReleaseCalls, cpu_info, array, copiedBeforeRelease,
                   user_total, system_total>>

\* deallocate_host_port(host_port)?   (mach_port_deallocate)
DeallocateHostPort ==
    /\ spc = "have_info"
    /\ portReleaseCalls' = portReleaseCalls + 1
    /\ \E kr \in KernReturns :
          /\ IF KernFailed(kr)
             THEN /\ failedCalls' = failedCalls \cup {"mach_port_deallocate"}
                  /\ UNCHANGED hostRefs
             ELSE /\ hostRefs' = hostRefs - 1
                  /\ UNCHANGED failedCalls
          /\ IF RetIsError(kr)
             THEN /\ outcome' = Propagate("last_os_error")
                  /\ spc' = "done"
             ELSE /\ spc' = "port_done"
                  /\ UNCHANGED outcome
    /\ UNCHANGED <<clockVars, threadVars, platform, linuxVars, bufState,
                   bufReleaseCalls, cpu_info, array, copiedBeforeRelease,
                   user_total, system_total>>

\* the summing loop over processor_info
SumTotals ==
    /\ spc = "port_done"
    /\ LET t == SumLoop(array, 1, [user |-> 0, system |-> 0]) IN
          /\ user_total' = t.user
          /\ system_total' = t.system
    /\ spc' = "summed"
    /\ UNCHANGED <<clockVars, threadVars, platform, outcome, linuxVars, hostRefs,
                   bufState, bufReleaseCalls, portReleaseCalls, failedCalls,
                   cpu_info, array, copiedBeforeRelease>>

\* let cpu_stats = CpuStats { user: .., system: .. }; Ok(cpu_stats)
Convert ==
    /\ spc = "summed"
    /\ \E ret \in SysconfResults :
          LET u == TicksToDuration(ClockState, user_total, ret)
              s == IF u.ok THEN TicksToDuration(u.cs, system_total, ret)
                   ELSE [cs |-> u.cs, ok |-> FALSE, d |-> ZeroDuration]
          IN  /\ CLOCK_TICKS_INIT' = s.cs.once
              /\ CLOCK_TICKS' = s.cs.cache
              /\ sysconfCalls' = s.cs.queries
              /\ sysconfRets' = s.cs.rets
              /\ outcome' = IF u.ok /\ s.ok THEN OkOutcome(u.d, s.d) ELSE PanicOutcome
    /\ spc' = "done"
    /\ UNCHANGED <<threadVars, platform, linuxVars, macVars>>

(***************************************************************************)
(* The specifications                                                      *)
(***************************************************************************)

InitClock ==
    /\ CLOCK_TICKS = 0
    /\ CLOCK_TICKS_INIT = "incomplete"
    /\ sysconfCalls = 0
    /\ sysconfRets = {}

InitThreads ==
    /\ pc = [t \in Threads |-> "idle"]
    /\ calls = [t \in Threads |-> 0]
    /\ result = [t \in Threads |-> 0]
    /\ returnedVals = {}

InitStats ==
    /\ spc = "start"
    /\ outcome = NoOutcome
    /\ openAttempts = 0
    /\ readAttempts = 0
    /\ ioError = "none"
    /\ parseCalls = 0
    /\ line = <<>>
    /\ hostRefs = 0
    /\ bufState = "none"
    /\ bufReleaseCalls = 0
    /\ portReleaseCalls = 0
    /\ failedCalls = {}
    /\ cpu_info = <<>>
    /\ array = <<>>
    /\ copiedBeforeRelease = FALSE
    /\ user_total = 0
    /\ system_total = 0

\* one cpu_stats() call, on either build of the crate
Init ==
    /\ platform \in {"linux", "macos"}
    /\ InitClock /\ InitThreads /\ InitStats

Next ==
    \/ Open
    \/ ReadLine
    \/ ParseLine
    \/ GetHostPort
    \/ HostProcessorInfo
    \/ CopyRecords
    \/ VmDeallocate
    \/ DeallocateHostPort
    \/ SumTotals
    \/ Convert

Spec == Init /\ [][Next]_vars

\* threads calling clock_ticks() concurrently
InitClockSpec ==
    /\ platform = "linux"
    /\ InitClock /\ InitThreads /\ InitStats

NextClock ==
    \/ \E t \in Threads : Call(t)
    \/ \E t \in Threads : CallOnce(t)
    \/ \E t \in Threads : Closure(t)
    \/ \E t \in Threads : ReadTicks(t)

SpecClock == InitClockSpec /\ [][NextClock]_vars

(***************************************************************************)
(* Properties of clock_ticks(), checked under SpecClock                    *)
(***************************************************************************)

\* C1: under any interleaving of the threads calling clock_ticks(), the OS
\* tick-frequency query is executed at most once, and once the initialisation
\* has completed no step runs the query again or changes the cached value.
C1_QueryAtMostOnce ==
    /\ [](sysconfCalls <= 1)
    /\ [][CLOCK_TICKS_INIT = "complete" =>
            /\ CLOCK_TICKS_INIT' = "complete"
            /\ CLOCK_TICKS' = CLOCK_TICKS
            /\ sysconfCalls' = sysconfCalls
            /\ sysconfRets' = sysconfRets]_vars

\* two threads have returned from clock_ticks(), one of them from its second
\* call, after a single query
C1_Witness ==
    /\ sysconfCalls = 1
    /\ CLOCK_TICKS_INIT = "complete"
    /\ \E t1, t2 \in Threads :
          /\ t1 # t2
          /\ pc[t1] = "returned" /\ calls[t1] = MaxCalls
          /\ pc[t2] = "returned"

\* C2: every call of clock_ticks() that returns a value returns the value the
\* single OS query produced (converted to usize): a caller reads the cache only
\* once the initialisation has completed, so never the placeholder of the
\* uninitialised cache, and after a failed query no call returns a value.
C2_SameValueEveryCall ==
    /\ Cardinality(returnedVals) <= 1
    /\ \A t \in Threads : pc[t] = "read" => CLOCK_TICKS_INIT = "complete"
    /\ \A t \in Threads : pc[t] = "returned" => result[t] \in returnedVals
    /\ returnedVals # {} =>
          /\ CLOCK_TICKS_INIT = "complete"
          /\ \E ret \in sysconfRets :
                ret # SysconfFailure /\ returnedVals = {AsUsize(ret)}
    /\ CLOCK_TICKS_INIT = "poisoned" => returnedVals = {}

\* two threads hold the same returned value while a third is at the gate
C2_Witness ==
    \E t1, t2, t3 \in Threads :
        /\ t1 # t2 /\ t2 # t3 /\ t1 # t3
        /\ pc[t1] = "returned" /\ pc[t2] = "returned"
        /\ result[t1] = result[t2] /\ result[t1] = AsUsize(-2)
        /\ pc[t3] = "call_once"

\* C3: every value clock_ticks() returns is strictly greater than zero, for
\* every result of the OS query other than the failure value -1.
C3_TicksPositive == \A v \in returnedVals : v > 0

(***************************************************************************)
(* Properties of cpu_stats(), checked under Spec                           *)
(***************************************************************************)

\* the whitespace-separated fields of the line read
Fields == SplitAsciiWhitespace(line)

\* the Linux reader has returned from a call that read a line
LineParsed == platform = "linux" /\ spc = "done" /\ ioError = "none"

\* the line has at least four fields whose 2nd and 4th parse as u64
FourNumericFields ==
    /\ Len(Fields) >= 4
    /\ ParseU64(Fields[2]).ok
    /\ ParseU64(Fields[4]).ok

\* the duration a field's text stands for, with the cached tick frequency
FieldDuration(tok) ==
    DurationDiv(FromSecs(ParseU64(tok).val), AsU32(CLOCK_TICKS)).d

\* clock_ticks() returns a value that can divide a Duration
TicksUsable == CLOCK_TICKS_INIT = "complete" /\ AsU32(CLOCK_TICKS) # 0

\* C4, as stated: on a line of at least four fields whose 2nd and 4th are
\* unsigned integers, cpu_stats() returns Ok with user from the 2nd field and
\* system from the 4th, whatever the other fields are.
C4_OkFromSecondAndFourth ==
    (LineParsed /\ FourNumericFields) =>
        outcome = OkOutcome(FieldDuration(Fields[2]), FieldDuration(Fields[4]))

\* C4, amended: on such a line cpu_stats() panics in the tick conversion exactly
\* when clock_ticks() gives no usable divisor (the query failed, or the value
\* cast to u32 is 0); otherwise it returns Ok with user from the 2nd field and
\* system from the 4th; the other fields decide neither the result nor the
\* outcome.
C4_SecondAndFourthDecide ==
    (LineParsed /\ FourNumericFields) =>
        outcome = IF TicksUsable
                  THEN OkOutcome(FieldDuration(Fields[2]), FieldDuration(Fields[4]))
                  ELSE PanicOutcome

\* an Ok result from a five-field line whose 1st, 3rd and 5th fields are text
C4_Witness ==
    /\ LineParsed /\ FourNumericFields
    /\ Len(Fields) >= 5
    /\ ~ParseU64(Fields[1]).ok /\ ~ParseU64(Fields[3]).ok /\ ~ParseU64(Fields[5]).ok
    /\ outcome.kind = "Ok"
    /\ parseCalls = 2

\* d is raw * SubsecPerSec / ticks sub-second units, rounded down
IsFloorDiv(d, raw, ticks) ==
    /\ d.nanos \in 0 .. (SubsecPerSec - 1)
    /\ LET n == d.secs * SubsecPerSec + d.nanos IN
          /\ n * ticks <= raw * SubsecPerSec
          /\ raw * SubsecPerSec < (n + 1) * ticks

\* the durations of an Ok result are the floor division of their raw counts
DurationsAreFloorDiv ==
    IF platform = "linux"
    THEN /\ Len(Fields) >= 2 =>
               IsFloorDiv(outcome.user, ParseU64(Fields[2]).val, CLOCK_TICKS)
         /\ Len(Fields) >= 4 =>
               IsFloorDiv(outcome.system, ParseU64(Fields[4]).val, CLOCK_TICKS)
    ELSE /\ IsFloorDiv(outcome.user, user_total, CLOCK_TICKS)
         /\ IsFloorDiv(outcome.system, system_total, CLOCK_TICKS)

\* cpu_stats() returned Ok after converting with the cached tick frequency
Converted ==
    /\ spc = "done" /\ outcome.kind = "Ok"
    /\ CLOCK_TICKS_INIT = "complete"

\* C5, as stated: in both variants, for every raw count R and tick frequency
\* T >= 1, each duration produced is floor(R * 10^9 / T) nanoseconds, the
\* divisor being exactly the value clock_ticks() returns.
C5_FloorDivEveryTick ==
    (Converted /\ CLOCK_TICKS >= 1) => DurationsAreFloorDiv

\* C5, amended: the same for every T in 1 .. 2^32 - 1; a larger T is divided
\* by as T mod 2^32.
C5_FloorDivWithinU32 ==
    (Converted /\ CLOCK_TICKS \in 1 .. (U32Mod - 1)) => DurationsAreFloorDiv

\* a conversion that leaves a sub-second remainder
C5_Witness ==
    /\ Converted
    /\ CLOCK_TICKS = 3
    /\ outcome.user.nanos > 0
    /\ outcome.user.secs = 0

RECURSIVE ColumnSum(_, _, _)
\* the sum over cores 1 .. n of counter k of the buffer the OS returned
ColumnSum(buf, k, n) ==
    IF n = 0 THEN 0 ELSE buf[ChunkSize * (n - 1) + k] + ColumnSum(buf, k, n - 1)

Cores == Len(cpu_info) \div ChunkSize

\* the macOS reader has summed the records
Summed ==
    /\ platform = "macos"
    /\ \/ spc = "summed"
       \/ spc = "done" /\ outcome.kind = "Ok"

\* C6: in the host-call variant the totals before conversion are the sums of
\* the user and of the system counters over all cores, and the result is
\* decided by them alone: no idle or nice value enters it.
C6_TotalsAreColumnSums ==
    /\ Summed =>
          /\ user_total = ColumnSum(cpu_info, 1, Cores)
          /\ system_total = ColumnSum(cpu_info, 2, Cores)
    /\ (Summed /\ spc = "done") =>
          outcome = OkOutcome(
              DurationDiv(FromSecs(ColumnSum(cpu_info, 1, Cores)), AsU32(CLOCK_TICKS)).d,
              DurationDiv(FromSecs(ColumnSum(cpu_info, 2, Cores)), AsU32(CLOCK_TICKS)).d)

\* two cores summed, with idle and nice counters that differ from the totals
C6_Witness ==
    /\ Summed /\ spc = "done"
    /\ Cores = 2
    /\ user_total = 2 /\ system_total = 0
    /\ ColumnSum(cpu_info, 3, Cores) = 2
    /\ ColumnSum(cpu_info, 4, Cores) = 1

\* C7: in the host-call variant, whenever one of the three OS calls returns a
\* failure status, cpu_stats() returns an error and never Ok.
C7_FailureNeverOk ==
    (platform = "macos" /\ spc = "done" /\ failedCalls # {}) => outcome.kind # "Ok"

\* C8: in the host-call variant no invocation returns while it still holds the
\* host handle or the buffer; the buffer is released once, after the copy.
C8_NothingHeldAtReturn ==
    (platform = "macos" /\ spc = "done") =>
        /\ hostRefs = 0
        /\ bufState # "allocated"
        /\ bufReleaseCalls <= 1
        /\ portReleaseCalls <= 1
        /\ bufState = "released" => copiedBeforeRelease

\* C9: in the file-based variant, when opening the file or reading its first
\* line fails, cpu_stats() returns that error: not a panic, not an Ok, after
\* one attempt of the failed call and with nothing parsed.
C9_IoErrorReturned ==
    /\ openAttempts <= 1 /\ readAttempts <= 1
    /\ (platform = "linux" /\ spc = "done" /\ ioError # "none") =>
          /\ outcome = ErrOutcome(ioError)
          /\ openAttempts = 1
          /\ readAttempts = (IF ioError \in ReadErrors THEN 1 ELSE 0)
          /\ parseCalls = 0
          /\ sysconfCalls = 0
    /\ (platform = "linux" /\ outcome.kind = "Err") => ioError # "none"

\* the read of the first line failed and its error came back
C9_Witness ==
    /\ platform = "linux" /\ spc = "done"
    /\ ioError \in ReadErrors
    /\ outcome.kind = "Err"
    /\ readAttempts = 1

\* C10: the file-based cpu_stats() returns Ok only with both fields computed
\* from the 2nd and the 4th field of the line read, never with a field left at
\* its default because the line was empty or short.
C10_NoPartialResult ==
    (LineParsed /\ outcome.kind = "Ok") => (Len(Fields) >= 4 /\ parseCalls = 2)

====
